---- MODULE Spec2Model ----
(***************************************************************************)
(* Model of the load tester's worker pool (worker.go, RunLoadTest and      *)
(* Worker.SendRequest), its statistics collector (stats.go, Stats) and the *)
(* orchestration in main.go.                                               *)
(*                                                                         *)
(* Goroutines are modelled as processes with a program counter each: the   *)
(* producer (the goroutine that runs RunLoadTest, i.e. main), the progress *)
(* monitor, and the worker goroutines.  The workers are anonymous closures *)
(* running the same code (worker.go:104-111), so the pool is the bag of    *)
(* their local states.  The jobs channel is a bounded FIFO, the context is *)
(* a flag that the environment may set at any moment, and the sync.Mutex   *)
(* of Stats is a variable naming its holder.                               *)
(*                                                                         *)
(* Spec is a run of the program, from ParseConfig on; FairSpec is Spec     *)
(* under fair scheduling.  StatsSpec drives the exported methods of Stats  *)
(* (stats.go) with sequences of results that a short run cannot produce,   *)
(* and TemplateSpec drives Template.Render (dynamic.go) on the Templates   *)
(* that ParseTemplate returns for a set of raw strings.                    *)
(***************************************************************************)
EXTENDS Integers, Sequences, FiniteSets, Bags, TLC

\* ---------------------------------------------------------------- bounds
MaxConcurrency == 2
MaxRequests == 3

\* What the target server answers with: the status code, the time it takes
\* and the length of the body.
ServerResponses ==
    {[StatusCode |-> 200, Duration |-> 1, ContentLength |-> 2],
     [StatusCode |-> 500, Duration |-> 2, ContentLength |-> 0]}

\* The time after which client.Do gives up, and the time after which a body
\* read fails.
TransportErrorDurations == {2}
BodyErrorDurations == {1}

\* math.MaxInt64, the initial minDuration; TLC integers are 32 bit wide, so
\* the largest TLC integer stands for it (durations stay far below).
MathMaxInt64 == 2147483647

\* cap of the error sample in Stats.Record
ErrorSampleCap == 10

\* the nil error
NoError == "nil"

VARIABLES
    concurrency,   \* config.Concurrency
    numRequests,   \* config.NumRequests
    ctxDone,       \* ctx.Done() is closed
    jobs,          \* buffer of the jobs channel
    jobsClosed,    \* close(jobs) has been executed
    wg,            \* counter of the sync.WaitGroup
    pc,            \* position of the RunLoadTest goroutine
    spawned,       \* loop variable of the spawn loop (worker.go:102)
    i,             \* loop variable of the dispatch loop (worker.go:115)
    ret,           \* return value of RunLoadTest: "none" while running
    pool,          \* bag of the worker goroutines' local states: position,
                   \* requestIndex held, RequestResult held
    mu,            \* holder of Stats.mu: 0 when unlocked
    stats,         \* the fields of Stats
    summary,       \* the Summary main obtained, NoSummary before
    doneClosed,    \* main.go:37: close(done) has been executed
    progressDone,  \* main.go:30: close(progressDone) has been executed
    mpc,           \* position of the progress monitor goroutine
    enqueued,      \* history: indices sent on jobs, in order
    taken,         \* history: indices received from jobs, in order
    recordCount,   \* history: number of completed Record calls per index
    sentCount,     \* history: number of SendRequest calls per index
    firedAt,       \* history: Len(enqueued) when ctx was cancelled, -1 before
    takenAtFire,   \* history: Len(taken) when ctx was cancelled, -1 before
    failLog,       \* history: the error of every failure recorded, in order
    feed,          \* input of a test driver, <<>> in a run of the program:
                   \* the results the k-th Record call may be given, or the
                   \* indices Render may be called with
    tmpl,          \* config.URLTemplate: what ParseTemplate returned
    renders        \* history: <<index, string>> of every Render call that
                   \* returned, in order

vars == <<concurrency, numRequests, ctxDone, jobs, jobsClosed, wg, pc, spawned,
          i, ret, pool, mu, stats, summary, doneClosed,
          progressDone, mpc, enqueued, taken, recordCount, sentCount,
          firedAt, takenAtFire, failLog, feed, tmpl, renders>>

\* holders of Stats.mu
WorkerId == 1
MainId == 2
MonitorId == 3
NoJob == -1
NoSummary == [TotalRequests |-> -1]

\* ------------------------------------------------------------ RequestResult
NoResult == [StatusCode |-> 0, Duration |-> 0, Error |-> NoError, ContentLength |-> 0]

\* worker.go:43-47: http.NewRequestWithContext failed
BuildErrorResult == [StatusCode |-> 0, Duration |-> 0, Error |-> "build", ContentLength |-> 0]

\* worker.go:57-62: client.Do failed (transport error, timeout, cancellation)
TransportErrorResult(d) ==
    [StatusCode |-> 0, Duration |-> d, Error |-> "transport", ContentLength |-> 0]

\* BodyErrorResult that keeps the status code of the response
BodyErrorResultBug(d) ==
    [StatusCode |-> 200, Duration |-> d, Error |-> "reading response body", ContentLength |-> 0]
\* worker.go:65-71: io.Copy of the body failed
BodyErrorResult(d) ==
    [StatusCode |-> 0, Duration |-> d, Error |-> "reading response body", ContentLength |-> 0]

\* worker.go:73-77: a response was received and drained
SuccessResult(code, d, n) ==
    [StatusCode |-> code, Duration |-> d, Error |-> NoError, ContentLength |-> n]

FailureResults ==
    {BuildErrorResult}
    \cup {TransportErrorResult(d) : d \in TransportErrorDurations}
    \cup {BodyErrorResult(d) : d \in BodyErrorDurations}

SuccessResults ==
    {SuccessResult(r.StatusCode, r.Duration, r.ContentLength) : r \in ServerResponses}

\* SendRequestResults of a request that is not bound to the context
SendRequestResultsBug(cancelled) == FailureResults \cup SuccessResults
\* The results Worker.SendRequest can return.  Once the context is cancelled
\* client.Do (or the body read) fails with the context's error.
SendRequestResults(cancelled) ==
    IF cancelled THEN FailureResults ELSE FailureResults \cup SuccessResults

\* -------------------------------------------------------------------- Stats
\* NewStats that makes the slice of durations with length n instead of
\* capacity n
NewStatsBug(n) ==
    [totalRequests |-> 0, totalErrors |-> 0, successCount |-> 0, failCount |-> 0,
     statusCodes |-> [c \in {} |-> 0], durations |-> [k \in 1..n |-> 0],
     totalDuration |-> 0, minDuration |-> MathMaxInt64, maxDuration |-> 0,
     totalBytes |-> 0, errors |-> <<>>, numRequests |-> n]
\* stats.go:36-44
NewStats(n) ==
    [totalRequests |-> 0, totalErrors |-> 0, successCount |-> 0, failCount |-> 0,
     statusCodes |-> [c \in {} |-> 0], durations |-> <<>>, totalDuration |-> 0,
     minDuration |-> MathMaxInt64, maxDuration |-> 0, totalBytes |-> 0,
     errors |-> <<>>, numRequests |-> n]

\* s.statusCodes[code]++ on a Go map: a missing key reads as 0
IncrMap(m, k) ==
    [c \in DOMAIN m \cup {k} |-> IF c = k THEN (IF k \in DOMAIN m THEN m[k] ELSE 0) + 1
                                          ELSE m[c]]

\* AppendError without the cap
AppendErrorBug(errs, msg) == Append(errs, msg)
\* stats.go:57-59
AppendError(errs, msg) ==
    IF Len(errs) < ErrorSampleCap THEN Append(errs, msg) ELSE errs

\* Record with the else of stats.go:60 lost: every result counts as a success
RecordBug(s, result) ==
    [s EXCEPT
        !.totalRequests = @ + 1,
        !.failCount = IF result.Error # NoError THEN @ + 1 ELSE @,
        !.totalErrors = IF result.Error # NoError THEN @ + 1 ELSE @,
        !.errors = IF result.Error # NoError THEN AppendError(@, result.Error) ELSE @,
        !.successCount = @ + 1,
        !.statusCodes = IF result.Error # NoError THEN @ ELSE IncrMap(@, result.StatusCode),
        !.totalDuration = @ + result.Duration,
        !.minDuration = IF result.Duration < @ THEN result.Duration ELSE @,
        !.maxDuration = IF result.Duration > @ THEN result.Duration ELSE @,
        !.durations = Append(@, result.Duration),
        !.totalBytes = @ + result.ContentLength]
\* stats.go:48-76, the body of Stats.Record between Lock and Unlock
Record(s, result) ==
    [s EXCEPT
        !.totalRequests = @ + 1,
        !.failCount = IF result.Error # NoError THEN @ + 1 ELSE @,
        !.totalErrors = IF result.Error # NoError THEN @ + 1 ELSE @,
        !.errors = IF result.Error # NoError THEN AppendError(@, result.Error) ELSE @,
        !.successCount = IF result.Error # NoError THEN @ ELSE @ + 1,
        !.statusCodes = IF result.Error # NoError THEN @ ELSE IncrMap(@, result.StatusCode),
        !.totalDuration = @ + result.Duration,
        !.minDuration = IF result.Duration < @ THEN result.Duration ELSE @,
        !.maxDuration = IF result.Duration > @ THEN result.Duration ELSE @,
        !.durations = Append(@, result.Duration),
        !.totalBytes = @ + result.ContentLength]

\* Progress with its first two return values swapped
ProgressBug(s) == [completed |-> s.numRequests, total |-> s.totalRequests]
\* stats.go:80-85: what Progress returns (the elapsed time is not modelled)
Progress(s) == [completed |-> s.totalRequests, total |-> s.numRequests]

RECURSIVE InsertSorted(_, _)
\* q, ascending, with x put in its place
InsertSorted(q, x) ==
    IF q = <<>> THEN <<x>>
    ELSE IF x <= Head(q) THEN <<x>> \o q
    ELSE <<Head(q)>> \o InsertSorted(Tail(q), x)

RECURSIVE SortSlice(_)
\* stats.go:119-121: sort.Slice(sorted, less) with less(i, j) = sorted[i] <
\* sorted[j]; the result is the ascending arrangement of q
SortSlice(q) ==
    IF q = <<>> THEN <<>> ELSE InsertSorted(SortSlice(Tail(q)), Head(q))

\* math.Ceil(pct / 100 * float64(n)) for pct in {50, 90, 95, 99}.  In float64
\* pct/100 is the double nearest to the quotient, and its product with n
\* rounds to pct*n/100 when that is an integer and stays on the same side of
\* the next integer otherwise, so the value is the exact ceiling.
CeilPct(pct, n) == (pct * n + 99) \div 100

\* percentile that leaves out the - 1 of stats.go:178
percentileBug(sorted, pct) ==
    IF Len(sorted) = 0 THEN 0
    ELSE LET r0 == CeilPct(pct, Len(sorted))
             r1 == IF r0 < 0 THEN 0 ELSE r0
             rank == IF r1 >= Len(sorted) THEN Len(sorted) - 1 ELSE r1
         IN  sorted[rank + 1]
\* stats.go:174-186: nearest rank; sorted[rank] of the 0-based Go slice is
\* sorted[rank + 1] of the sequence
percentile(sorted, pct) ==
    IF Len(sorted) = 0 THEN 0
    ELSE LET r0 == CeilPct(pct, Len(sorted)) - 1
             r1 == IF r0 < 0 THEN 0 ELSE r0
             rank == IF r1 >= Len(sorted) THEN Len(sorted) - 1 ELSE r1
         IN  sorted[rank + 1]

\* stats.go:111-170 (counts, extremes, percentiles and the defensive copies)
GetSummary(s) ==
    [TotalRequests |-> s.totalRequests,
     SuccessCount |-> s.successCount,
     FailCount |-> s.failCount,
     TotalErrors |-> s.totalErrors,
     AvgDuration |-> IF s.totalRequests > 0 THEN s.totalDuration \div s.totalRequests ELSE 0,
     MinDuration |-> IF s.minDuration = MathMaxInt64 THEN 0 ELSE s.minDuration,
     MaxDuration |-> s.maxDuration,
     StatusCodes |-> s.statusCodes,
     TotalBytes |-> s.totalBytes,
     Errors |-> s.errors,
     P50 |-> percentile(SortSlice(s.durations), 50),
     P90 |-> percentile(SortSlice(s.durations), 90),
     P95 |-> percentile(SortSlice(s.durations), 95),
     P99 |-> percentile(SortSlice(s.durations), 99)]

\* AfterGetSummary that sorts s.durations in place
AfterGetSummaryBug(s) == [s EXCEPT !.durations = SortSlice(@)]
\* stats.go:117-119, 140-148: GetSummary sorts a copy of s.durations and
\* reads the other fields, so the Stats are as before
AfterGetSummary(s) == s

\* stats.go:140-148: the map and the slice of the Summary are copies, so a
\* caller that changes the Summary to sm leaves the Stats s as they are
AfterSummaryChange(s, sm) == s

\* ---------------------------------------------------------------- channel
\* worker.go:97: make(chan int, config.Concurrency*2)
QueueCap(c) == c * 2

\* CanSend off by one: a send proceeds on a full buffer
CanSendBug(q, c) == Len(q) <= QueueCap(c)
\* a send on a buffered channel proceeds while the buffer has room
CanSend(q, c) == Len(q) < QueueCap(c)

\* Dequeue that leaves the received element in the buffer
DequeueBug(q) == q
\* a receive removes the oldest element of the buffer
Dequeue(q) == Tail(q)

\* RangeEnds that ignores what is still buffered
RangeEndsBug(q, closed) == closed
\* worker.go:107: range over a channel ends when it is closed and drained
RangeEnds(q, closed) == closed /\ q = <<>>

\* LoopCond that ends the dispatch loop one index early
LoopCondBug(k, n) == k < n - 1
\* worker.go:115: i < config.NumRequests
LoopCond(k, n) == k < n

\* NextIndex that skips an index
NextIndexBug(k) == k + 2
\* worker.go:115: i++
NextIndex(k) == k + 1

\* SpawnCond that starts one worker too many
SpawnCondBug(k, c) == k <= c
\* worker.go:102: i < config.Concurrency
SpawnCond(k, c) == k < c

\* WaitReturns that does not wait for the last worker
WaitReturnsBug(n) == n <= 1
\* wg.Wait() returns when the counter is zero
WaitReturns(n) == n = 0

\* Received that does not wait for the channel to be closed
ReceivedBug(closed) == TRUE
\* main.go:38: a receive on a channel nothing is sent on returns once the
\* channel is closed
Received(closed) == closed

\* a worker that ends without wg.Done()
DoneBug(n) == n
\* worker.go:105: defer wg.Done()
Done(n) == n - 1

\* a mutex that lets a second goroutine in
UnlockedBug(m) == TRUE
\* sync.Mutex: s.mu.Lock() (stats.go:49, 81, 112) returns once no goroutine
\* holds the mutex
Unlocked(m) == m = 0

\* a cancelled branch that closes jobs and stays in the dispatch loop
AfterCancelledCloseBug == "dispatch"
\* worker.go:119-121: after close(jobs) the cancelled branch waits for the
\* workers and returns
AfterCancelledClose == "waitCancelled"

\* ------------------------------------------------------------ worker state
\* worker.go:107: blocked in the range, holding no index
Idle == [pc |-> "range", job |-> NoJob, res |-> NoResult]

\* worker.go:108: inside SendRequest for index k
Sending(k) == [pc |-> "send", job |-> k, res |-> NoResult]

\* worker.go:109: SendRequest returned r, Record waits for s.mu
Waiting(k, r) == [pc |-> "record", job |-> k, res |-> r]

\* stats.go:50-76: inside Record, holding s.mu
Recording(k, r) == [pc |-> "recording", job |-> k, res |-> r]

\* worker.go:105: the goroutine has run wg.Done() and ended
Exited == [pc |-> "exited", job |-> NoJob, res |-> NoResult]

\* AfterRecord that leaves the job loop after a failed request
AfterRecordBug(r) == IF r.Error # NoError THEN Exited ELSE Idle
\* worker.go:107-110: whatever the result, the loop goes on to its next
\* iteration
AfterRecord(r) == Idle

\* one worker goes from local state a to local state b
Step(p, a, b) == (p (-) SetToBag({a})) (+) SetToBag({b})

\* the local states of the workers that exist
WorkerStates == BagToSet(pool)

\* ------------------------------------------------------------- templates
\* dynamic.go.  A Go string is modelled as the sequence of its characters.
\* The machine integer is modelled 28 bits wide.
IntMax == 134217727
IntMin == -134217728

\* the result of an int addition or subtraction
WrapInt(n) == ((n - IntMin) % 268435456) + IntMin

Digit == <<"0", "1", "2", "3", "4", "5", "6", "7", "8", "9">>
WhiteSpace == {" ", "\t", "\n", "\r"}

\* the placeholder names of lookupGenerator (dynamic.go:194-336)
UuidName == <<"$", "u", "u", "i", "d">>
RandomIntName == <<"$", "r", "a", "n", "d", "o", "m", "I", "n", "t">>
RandomFloatName == <<"$", "r", "a", "n", "d", "o", "m", "F", "l", "o", "a", "t">>
TimestampName == <<"$", "t", "i", "m", "e", "s", "t", "a", "m", "p">>
TimestampISOName == <<"$", "t", "i", "m", "e", "s", "t", "a", "m", "p", "I", "S", "O">>
RandomStringName == <<"$", "r", "a", "n", "d", "o", "m", "S", "t", "r", "i", "n", "g">>
RandomEmailName == <<"$", "r", "a", "n", "d", "o", "m", "E", "m", "a", "i", "l">>
RandomNameName == <<"$", "r", "a", "n", "d", "o", "m", "N", "a", "m", "e">>
SequenceName == <<"$", "s", "e", "q", "u", "e", "n", "c", "e">>
CycleName == <<"$", "c", "y", "c", "l", "e">>
RandomBoolName == <<"$", "r", "a", "n", "d", "o", "m", "B", "o", "o", "l">>
RandomIPName == <<"$", "r", "a", "n", "d", "o", "m", "I", "P">>
RandomUAName == <<"$", "r", "a", "n", "d", "o", "m", "U", "A">>

\* s[a:b] of Go
Slice(s, a, b) == SubSeq(s, a + 1, b)

\* sub occurs in s at the 0-based position k
OccursAt(s, sub, k) == k + Len(sub) <= Len(s) /\ Slice(s, k, k + Len(sub)) = sub

\* strings.Index(s, sub)
Index(s, sub) ==
    IF \E k \in 0..Len(s) : OccursAt(s, sub, k)
    THEN CHOOSE k \in 0..Len(s) :
            OccursAt(s, sub, k) /\ \A j \in 0..(k - 1) : ~OccursAt(s, sub, j)
    ELSE -1

\* strings.HasSuffix(s, suf)
HasSuffix(s, suf) == Len(suf) <= Len(s) /\ Slice(s, Len(s) - Len(suf), Len(s)) = suf

RECURSIVE TrimSpace(_)
\* strings.TrimSpace(s)
TrimSpace(s) ==
    IF s = <<>> THEN s
    ELSE IF Head(s) \in WhiteSpace THEN TrimSpace(Tail(s))
    ELSE IF s[Len(s)] \in WhiteSpace THEN TrimSpace(Slice(s, 0, Len(s) - 1))
    ELSE s

RECURSIVE Split(_, _)
\* strings.Split(s, sep) for a separator of one character
Split(s, sep) ==
    LET k == Index(s, sep)
    IN  IF k = -1 THEN <<s>>
        ELSE <<Slice(s, 0, k)>> \o Split(Slice(s, k + 1, Len(s)), sep)

IsDigit(c) == \E d \in 1..10 : Digit[d] = c

RECURSIVE DigitsValue(_)
\* the number a sequence of digits denotes, or some number above IntMax + 1
\* when it is larger than that
DigitsValue(s) ==
    IF s = <<>> THEN 0
    ELSE LET v == DigitsValue(Slice(s, 0, Len(s) - 1))
             d == (CHOOSE k \in 1..10 : Digit[k] = s[Len(s)]) - 1
         IN  IF v > IntMax + 1 THEN v ELSE v * 10 + d

\* strconv.Atoi(p): an optional sign and decimal digits, within the range of
\* int
Atoi(p) ==
    LET signed == p # <<>> /\ Head(p) \in {"+", "-"}
        body == IF signed THEN Tail(p) ELSE p
        v == DigitsValue(body)
        n == IF signed /\ Head(p) = "-" THEN 0 - v ELSE v
    IN  IF body = <<>> \/ \E j \in 1..Len(body) : ~IsDigit(body[j])
        THEN [ok |-> FALSE, val |-> 0]
        ELSE IF n > IntMax \/ n < IntMin THEN [ok |-> FALSE, val |-> 0]
        ELSE [ok |-> TRUE, val |-> n]

RECURSIVE Decimal(_)
\* the decimal digits of n >= 0
Decimal(n) ==
    IF n < 10 THEN <<Digit[n + 1]>>
    ELSE Decimal(n \div 10) \o <<Digit[(n % 10) + 1]>>

RECURSIVE Zeros(_)
Zeros(n) == IF n <= 0 THEN <<>> ELSE <<"0">> \o Zeros(n - 1)

\* the largest number fmt accepts while it reads a width (tooLarge of
\* fmt/print.go)
FmtMaxWidth == 1000000

\* fmt reads the width of "%0<pad>d" digit by digit and gives up when the
\* number read before a further digit is already above FmtMaxWidth
WidthTooLarge(pad) == pad \div 10 > FmtMaxWidth

\* the sign, then zeros up to the width, then the digits
PaddedDecimal(pad, n) ==
    LET sign == IF n < 0 THEN <<"-">> ELSE <<>>
        digits == Decimal(IF n < 0 THEN 0 - n ELSE n)
    IN  sign \o Zeros(pad - Len(sign) - Len(digits)) \o digits

\* what fmt prints for a format that ends without a verb and leaves the
\* argument n unused: %!(NOVERB)%!(EXTRA int=n)
NoVerb(n) ==
    <<"%", "!", "(", "N", "O", "V", "E", "R", "B", ")",
      "%", "!", "(", "E", "X", "T", "R", "A", " ", "i", "n", "t", "=">>
        \o PaddedDecimal(0, n) \o <<")">>

\* fmt.Sprintf("%d", n) for pad = 0 and fmt.Sprintf("%0<pad>d", n) otherwise
\* (dynamic.go:282-287, 307-312)
Sprintf(pad, n) ==
    IF WidthTooLarge(pad) THEN NoVerb(n) ELSE PaddedDecimal(pad, n)

\* dynamic.go:45-57
splitPlaceholder(raw) ==
    LET openParen == Index(raw, <<"(">>)
    IN  IF openParen = -1 THEN [baseName |-> raw, params |-> <<>>, err |-> "nil"]
        ELSE IF ~HasSuffix(raw, <<")">>)
        THEN [baseName |-> <<>>, params |-> <<>>, err |-> "unbalanced parentheses"]
        ELSE [baseName |-> Slice(raw, 0, openParen),
              params |-> Slice(raw, openParen + 1, Len(raw) - 1),
              err |-> "nil"]

RECURSIVE FillParams(_, _, _)
\* dynamic.go:76-86: the loop over the parts, from part k on
FillParams(parts, k, result) ==
    IF k > Len(parts) THEN [vals |-> result, err |-> "nil"]
    ELSE LET p == TrimSpace(parts[k])
         IN  IF p = <<>> THEN FillParams(parts, k + 1, result)
             ELSE IF ~Atoi(p).ok THEN [vals |-> <<>>, err |-> "invalid integer parameter"]
             ELSE FillParams(parts, k + 1, [result EXCEPT ![k] = Atoi(p).val])

\* dynamic.go:63-89
parseIntParams(raw, defaults) ==
    IF raw = <<>> THEN [vals |-> defaults, err |-> "nil"]
    ELSE LET parts == Split(raw, <<",">>)
         IN  IF Len(parts) > Len(defaults)
             THEN [vals |-> <<>>, err |-> "too many parameters"]
             ELSE FillParams(parts, 1, defaults)

\* a noParams that lets parameters through
noParamsBug(params) == "nil"
\* dynamic.go:93-98
noParams(params) == IF params # <<>> THEN "does not accept parameters" ELSE "nil"

\* A generatorFunc: the closure lookupGenerator returns, as the generator's
\* kind and the parameters it captured.
Generator(kind, a, b, c) == [kind |-> kind, a |-> a, b |-> b, c |-> c]
NoGenerator == Generator("nil", 0, 0, 0)

\* args is what the text of the error quotes
GeneratorError(msg) == [gen |-> NoGenerator, err |-> msg, args |-> <<>>]
GeneratorFound(g) == [gen |-> g, err |-> "nil", args |-> <<>>]

\* the names the error of an unknown placeholder lists (dynamic.go:334)
AvailableNames ==
    <<UuidName, RandomIntName, RandomFloatName, TimestampName, TimestampISOName,
      RandomStringName, RandomEmailName, RandomNameName, SequenceName, CycleName,
      RandomBoolName, RandomIPName, RandomUAName>>

\* dynamic.go:333-334: unknown placeholder %q (available: ...)
UnknownPlaceholder(name) ==
    [gen |-> NoGenerator, err |-> "unknown placeholder",
     args |-> <<name>> \o AvailableNames]

\* the placeholders that take no parameters, with the kind of their generator
Parameterless ==
    {<<UuidName, "uuid">>, <<RandomFloatName, "randomFloat">>,
     <<TimestampName, "timestamp">>, <<TimestampISOName, "timestampISO">>,
     <<RandomEmailName, "randomEmail">>, <<RandomNameName, "randomName">>,
     <<RandomBoolName, "randomBool">>, <<RandomIPName, "randomIP">>,
     <<RandomUAName, "randomUA">>}

\* dynamic.go:194-336
lookupGenerator(name, params) ==
    IF \E e \in Parameterless : e[1] = name
    THEN IF noParams(params) # "nil" THEN GeneratorError(noParams(params))
         ELSE GeneratorFound(
                Generator((CHOOSE e \in Parameterless : e[1] = name)[2], 0, 0, 0))
    ELSE IF name = RandomIntName
    THEN LET p == parseIntParams(params, <<0, 10000>>)
         IN  IF p.err # "nil" THEN GeneratorError(p.err)
             ELSE IF p.vals[1] > p.vals[2] THEN GeneratorError("min must be <= max")
             ELSE GeneratorFound(Generator("randomInt", p.vals[1], p.vals[2], 0))
    ELSE IF name = RandomStringName
    THEN LET p == parseIntParams(params, <<16>>)
         IN  IF p.err # "nil" THEN GeneratorError(p.err)
             ELSE IF p.vals[1] <= 0 THEN GeneratorError("length must be > 0")
             ELSE GeneratorFound(Generator("randomString", p.vals[1], 0, 0))
    ELSE IF name = SequenceName
    THEN LET p == parseIntParams(params, <<0, 0>>)
         IN  IF p.err # "nil" THEN GeneratorError(p.err)
             ELSE IF p.vals[2] < 0 THEN GeneratorError("pad width must be >= 0")
             ELSE GeneratorFound(Generator("sequence", p.vals[1], p.vals[2], 0))
    ELSE IF name = CycleName
    THEN LET p == parseIntParams(params, <<1, 10, 0>>)
         IN  IF p.err # "nil" THEN GeneratorError(p.err)
             ELSE IF p.vals[2] <= 0 THEN GeneratorError("count must be > 0")
             ELSE IF p.vals[3] < 0 THEN GeneratorError("pad width must be >= 0")
             ELSE GeneratorFound(Generator("cycle", p.vals[1], p.vals[2], p.vals[3]))
    ELSE UnknownPlaceholder(name)

\* a templateSegment (dynamic.go:25-29)
StaticSegment(text) == [staticText |-> text, generator |-> NoGenerator, name |-> <<>>]
DynamicSegment(g, name) == [staticText |-> <<>>, generator |-> g, name |-> name]

\* dynamic.go:145-148: the unique names, in order of first appearance
AddPlaceholder(seen, name) ==
    IF \E k \in 1..Len(seen) : seen[k] = name THEN seen ELSE Append(seen, name)

\* dynamic.go:132-134, 137-139: return nil, err.  No Template is returned:
\* the segments built so far are dropped.
ParseError(t, msg, args) ==
    [segments |-> <<>>, placeholders |-> <<>>, raw |-> t.raw, err |-> msg,
     args |-> args]

\* an unclosed "{{" that keeps the text from the "{{" on only
UnclosedRestBug(t, remaining) ==
    [t EXCEPT !.segments =
        Append(@, StaticSegment(Slice(remaining, Index(remaining, <<"{", "{">>),
                                      Len(remaining))))]
\* dynamic.go:119-124: an unclosed "{{" makes all that remains one static
\* segment
UnclosedRest(t, remaining) ==
    [t EXCEPT !.segments = Append(@, StaticSegment(remaining))]

RECURSIVE ParseFrom(_, _)
\* dynamic.go:109-151: one iteration of the loop of ParseTemplate, on
\* the text that remains and the Template built so far
ParseFrom(remaining, t) ==
    LET openIdx == Index(remaining, <<"{", "{">>)
    IN  IF openIdx = -1
        THEN IF Len(remaining) > 0
             THEN [t EXCEPT !.segments = Append(@, StaticSegment(remaining))]
             ELSE t
        ELSE
        LET rel == Index(Slice(remaining, openIdx, Len(remaining)), <<"}", "}">>)
        IN  IF rel = -1
            THEN UnclosedRest(t, remaining)
            ELSE
            LET closeIdx == rel + openIdx
                before == IF openIdx > 0
                          THEN Append(t.segments, StaticSegment(Slice(remaining, 0, openIdx)))
                          ELSE t.segments
                rawPlaceholder == TrimSpace(Slice(remaining, openIdx + 2, closeIdx))
                split == splitPlaceholder(rawPlaceholder)
                found == lookupGenerator(split.baseName, split.params)
            IN  IF split.err # "nil" THEN ParseError(t, split.err, <<rawPlaceholder>>)
                ELSE IF found.err # "nil" THEN ParseError(t, found.err, found.args)
                ELSE ParseFrom(
                        Slice(remaining, closeIdx + 2, Len(remaining)),
                        [t EXCEPT
                            !.segments = Append(before, DynamicSegment(found.gen, split.baseName)),
                            !.placeholders = AddPlaceholder(@, split.baseName)])

\* dynamic.go:104-154: the Template, with err "nil", or the error
ParseTemplate(raw) ==
    ParseFrom(raw, [segments |-> <<>>, placeholders |-> <<>>, raw |-> raw,
                    err |-> "nil", args |-> <<>>])

\* dynamic.go:157-159
HasPlaceholders(t) == Len(t.placeholders) > 0


\* what a generator that panics yields in place of a string
Panic == <<"panic">>

\* two of the 62 characters of alphanumeric (dynamic.go:379)
AlphanumericSample == {"a", "9"}

\* two values of time.Now().Unix()
ClockSample == {1762000000, 1762000001}

\* SequenceOutputs of a generator that counts its calls instead of using the
\* index it is given
SequenceOutputsBug(g, requestIndex) ==
    {Sprintf(g.b, WrapInt(g.a + k)) : k \in 0..requestIndex}
\* dynamic.go:276-288, 415-417: fmt.Sprintf of start + requestIndex
SequenceOutputs(g, requestIndex) == {Sprintf(g.b, WrapInt(g.a + requestIndex))}

\* dynamic.go:304-313: fmt.Sprintf of start + (requestIndex % count)
CycleOutputs(g, requestIndex) == {Sprintf(g.c, WrapInt(g.a + (requestIndex % g.b)))}

\* dynamic.go:214-216, 359-361: min + mathrand.Intn(max-min+1); Intn panics
\* when its argument is not positive
RandomIntOutputs(g) ==
    LET n == WrapInt(WrapInt(g.b - g.a) + 1)
    IN  IF n <= 0 THEN {Panic}
        ELSE {Sprintf(0, WrapInt(g.a + k)) : k \in 0..(n - 1)}

\* The strings the generator g can return for requestIndex.  A generator
\* that draws from math/rand, crypto/rand or the clock can return any of
\* its values on any call; those of the generators without a case of their
\* own here are stood for by two values each.
GeneratorOutputs(g, requestIndex) ==
    CASE g.kind = "sequence" -> SequenceOutputs(g, requestIndex)
      [] g.kind = "cycle" -> CycleOutputs(g, requestIndex)
      [] g.kind = "randomInt" -> RandomIntOutputs(g)
      [] g.kind = "randomString" -> [1..g.a -> AlphanumericSample]
      [] g.kind = "randomBool" -> {<<"f", "a", "l", "s", "e">>, <<"t", "r", "u", "e">>}
      [] g.kind = "timestamp" -> {Decimal(t) : t \in ClockSample}
      [] OTHER -> {<<g.kind, "A">>, <<g.kind, "B">>}

\* dynamic.go:180-185: what segment seg writes to the builder
SegmentOutputs(seg, requestIndex) ==
    IF seg.generator # NoGenerator THEN GeneratorOutputs(seg.generator, requestIndex)
    ELSE {seg.staticText}

\* ----------------------------------------------------------- ParseConfig
\* the text of a token: {{ body }}
Token(body) == <<"{", "{">> \o body \o <<"}", "}">>

\* the token of name with the parameter text params: {{name(params)}}
Call(name, params) == Token(name \o <<"(">> \o params \o <<")">>)

\* URL templates with a placeholder that is not valid, each with its fault:
\* "{{$nope}}", "{{uuid}}", "{{}}", "a{{$uuid}}b{{$Uuid}}",
\* "{{$randomInt(a,2)}}", "{{$sequence(1.5)}}", "{{$randomString(134217728)}}",
\* "{{$randomString(1,2)}}", "{{$cycle(1,2,3,4)}}", "{{$randomInt(1,2,)}}",
\* "{{$uuid(1)}}", "{{$randomBool(x)}}", "{{$timestamp( )}}",
\* "{{$randomInt(2,1)}}", "{{$randomString(0)}}", "{{$randomString(-1)}}",
\* "{{$cycle(1,0)}}", "{{$cycle(1,-2)}}", "{{$sequence(1,-1)}}",
\* "{{$cycle(1,2,-1)}}", "{{$sequence}}-{{$sequence(1}}"
InvalidCases ==
    {[raw |-> Token(<<"$", "n", "o", "p", "e">>), fault |-> "unknown name"],
     [raw |-> Token(<<"u", "u", "i", "d">>), fault |-> "unknown name"],
     [raw |-> Token(<<>>), fault |-> "unknown name"],
     [raw |-> <<"a">> \o Token(UuidName) \o <<"b">> \o Token(<<"$", "U", "u", "i", "d">>),
      fault |-> "unknown name"],
     [raw |-> Call(RandomIntName, <<"a", ",", "2">>), fault |-> "non-integer parameter"],
     [raw |-> Call(SequenceName, <<"1", ".", "5">>), fault |-> "non-integer parameter"],
     [raw |-> Call(RandomStringName, Decimal(IntMax + 1)), fault |-> "non-integer parameter"],
     [raw |-> Call(RandomStringName, <<"1", ",", "2">>), fault |-> "too many parameters"],
     [raw |-> Call(CycleName, <<"1", ",", "2", ",", "3", ",", "4">>),
      fault |-> "too many parameters"],
     [raw |-> Call(RandomIntName, <<"1", ",", "2", ",">>), fault |-> "too many parameters"],
     [raw |-> Call(UuidName, <<"1">>), fault |-> "parameter on a parameterless generator"],
     [raw |-> Call(RandomBoolName, <<"x">>), fault |-> "parameter on a parameterless generator"],
     [raw |-> Call(TimestampName, <<" ">>), fault |-> "parameter on a parameterless generator"],
     [raw |-> Call(RandomIntName, <<"2", ",", "1">>), fault |-> "min > max"],
     [raw |-> Call(RandomStringName, <<"0">>), fault |-> "length <= 0"],
     [raw |-> Call(RandomStringName, <<"-", "1">>), fault |-> "length <= 0"],
     [raw |-> Call(CycleName, <<"1", ",", "0">>), fault |-> "count <= 0"],
     [raw |-> Call(CycleName, <<"1", ",", "-", "2">>), fault |-> "count <= 0"],
     [raw |-> Call(SequenceName, <<"1", ",", "-", "1">>), fault |-> "negative pad"],
     [raw |-> Call(CycleName, <<"1", ",", "2", ",", "-", "1">>), fault |-> "negative pad"],
     [raw |-> Token(SequenceName) \o <<"-">> \o Token(SequenceName \o <<"(", "1">>),
      fault |-> "unbalanced parentheses"]}

\* the URL templates of the runs: "/", which has no placeholder, and those
\* with an invalid placeholder
ConfigTemplates == {<<"/">>} \cup {c.raw : c \in InvalidCases}

\* ------------------------------------------------------------------- Init
\* config.go:137-140 and main.go:12-17: ParseConfig parses the URL template,
\* and main exits with status 1 when that fails
Init ==
    /\ concurrency \in 1..MaxConcurrency
    /\ numRequests \in 1..MaxRequests
    /\ tmpl \in {ParseTemplate(raw) : raw \in ConfigTemplates}
    /\ ctxDone = FALSE
    /\ jobs = <<>>
    /\ jobsClosed = FALSE
    /\ wg = 0
    /\ pc = IF tmpl.err = "nil" THEN "spawn" ELSE "exit1"
    /\ spawned = 0
    /\ i = 0
    /\ ret = "none"
    /\ pool = EmptyBag
    /\ mu = 0
    /\ stats = NewStats(numRequests)
    /\ summary = NoSummary
    /\ doneClosed = FALSE
    /\ progressDone = FALSE
    /\ mpc = IF tmpl.err = "nil" THEN "select" ELSE "exited"
    /\ enqueued = <<>>
    /\ taken = <<>>
    /\ recordCount = [k \in 0..(numRequests - 1) |-> 0]
    /\ sentCount = [k \in 0..(numRequests - 1) |-> 0]
    /\ firedAt = -1
    /\ takenAtFire = -1
    /\ failLog = <<>>
    /\ feed = <<>>
    /\ renders = <<>>

\* what a run of the program leaves as it is: the configuration, the input
\* of the test drivers and the history of Render
config == <<concurrency, numRequests, feed, tmpl, renders>>
history == <<enqueued, taken, recordCount, sentCount, firedAt, takenAtFire,
             failLog>>
producer == <<jobs, jobsClosed, wg, pc, spawned, i, ret>>
monitor == <<doneClosed, progressDone, mpc>>

\* ------------------------------------------------------------ environment
\* The signal handler cancels the context (main.go:21), which exists once
\* ParseConfig has succeeded.
Cancel ==
    /\ pc # "exit1"
    /\ ~ctxDone
    /\ ctxDone' = TRUE
    /\ firedAt' = Len(enqueued)
    /\ takenAtFire' = Len(taken)
    /\ UNCHANGED <<config, producer, pool, mu, stats, summary, monitor,
                   enqueued, taken, recordCount, sentCount, failLog>>

\* ------------------------------------------------------------ RunLoadTest
\* worker.go:102-112: wg.Add(1); go func() {...}()
SpawnWorker ==
    /\ pc = "spawn"
    /\ SpawnCond(spawned, concurrency)
    /\ wg' = wg + 1
    /\ pool' = pool (+) SetToBag({Idle})
    /\ spawned' = spawned + 1
    /\ UNCHANGED <<config, ctxDone, jobs, jobsClosed, pc, i, ret,
                   mu, stats, summary, monitor, history>>

\* worker.go:102: the spawn loop ends
SpawnDone ==
    /\ pc = "spawn"
    /\ ~SpawnCond(spawned, concurrency)
    /\ pc' = "dispatch"
    /\ UNCHANGED <<config, ctxDone, jobs, jobsClosed, wg, spawned, i, ret,
                   pool, mu, stats, summary, monitor, history>>

\* worker.go:116-117: the select takes the case jobs <- i
SendJob ==
    /\ pc = "dispatch"
    /\ LoopCond(i, numRequests)
    /\ CanSend(jobs, concurrency)
    /\ jobs' = Append(jobs, i)
    /\ enqueued' = Append(enqueued, i)
    /\ i' = NextIndex(i)
    /\ UNCHANGED <<config, ctxDone, jobsClosed, wg, pc, spawned, ret, pool,
                   mu, stats, summary, monitor, taken, recordCount, sentCount,
                   firedAt, takenAtFire, failLog>>

\* worker.go:118-119: the select takes the case <-ctx.Done() and closes jobs
SelectCancelled ==
    /\ pc = "dispatch"
    /\ LoopCond(i, numRequests)
    /\ ctxDone
    /\ jobsClosed' = TRUE
    /\ pc' = AfterCancelledClose
    /\ UNCHANGED <<config, ctxDone, jobs, wg, spawned, i, ret, pool,
                   mu, stats, summary, monitor, history>>

\* worker.go:120-121: wg.Wait(); return ctx.Err()
ReturnCancelled ==
    /\ pc = "waitCancelled"
    /\ WaitReturns(wg)
    /\ ret' = "cancelled"
    /\ pc' = "returned"
    /\ UNCHANGED <<config, ctxDone, jobs, jobsClosed, wg, spawned, i, pool,
                   mu, stats, summary, monitor, history>>

\* worker.go:124: the dispatch loop ends, close(jobs)
CloseJobs ==
    /\ pc = "dispatch"
    /\ ~LoopCond(i, numRequests)
    /\ jobsClosed' = TRUE
    /\ pc' = "wait"
    /\ UNCHANGED <<config, ctxDone, jobs, wg, spawned, i, ret, pool,
                   mu, stats, summary, monitor, history>>

\* worker.go:127-129: wg.Wait(); return nil
ReturnNil ==
    /\ pc = "wait"
    /\ WaitReturns(wg)
    /\ ret' = "nil"
    /\ pc' = "returned"
    /\ UNCHANGED <<config, ctxDone, jobs, jobsClosed, wg, spawned, i, pool,
                   mu, stats, summary, monitor, history>>

\* ----------------------------------------------------------------- worker
\* worker.go:107: the range receives the next index
TakeJob ==
    /\ Idle \in WorkerStates
    /\ jobs # <<>>
    /\ pool' = Step(pool, Idle, Sending(Head(jobs)))
    /\ jobs' = Dequeue(jobs)
    /\ taken' = Append(taken, Head(jobs))
    /\ UNCHANGED <<config, ctxDone, jobsClosed, wg, pc, spawned, i, ret,
                   mu, stats, summary, monitor, enqueued, recordCount,
                   sentCount, firedAt, takenAtFire, failLog>>

\* worker.go:107 and 105: the range ends, the deferred wg.Done() runs
WorkerExit ==
    /\ Idle \in WorkerStates
    /\ RangeEnds(jobs, jobsClosed)
    /\ wg' = Done(wg)
    /\ pool' = Step(pool, Idle, Exited)
    /\ UNCHANGED <<config, ctxDone, jobs, jobsClosed, pc, spawned, i, ret,
                   mu, stats, summary, monitor, history>>

\* worker.go:108 and 30-78: result := worker.SendRequest(ctx, requestIndex)
SendRequest ==
    \E w \in WorkerStates :
        /\ w.pc = "send"
        /\ \E r \in SendRequestResults(ctxDone) :
              pool' = Step(pool, w, Waiting(w.job, r))
        /\ sentCount' = [sentCount EXCEPT ![w.job] = @ + 1]
        /\ UNCHANGED <<config, ctxDone, producer, mu, stats, summary, monitor,
                       enqueued, taken, recordCount, firedAt, takenAtFire,
                       failLog>>

\* stats.go:49: s.mu.Lock() in Record
RecordLock ==
    \E w \in WorkerStates :
        /\ w.pc = "record"
        /\ Unlocked(mu)
        /\ mu' = WorkerId
        /\ pool' = Step(pool, w, Recording(w.job, w.res))
        /\ UNCHANGED <<config, ctxDone, producer, stats, summary, monitor,
                       history>>

\* stats.go:50-76: the body of Record and the deferred s.mu.Unlock()
RecordCommit ==
    \E w \in WorkerStates :
        /\ w.pc = "recording"
        /\ mu = WorkerId
        /\ stats' = Record(stats, w.res)
        /\ mu' = 0
        /\ recordCount' = [recordCount EXCEPT ![w.job] = @ + 1]
        /\ failLog' = IF w.res.Error # NoError THEN Append(failLog, w.res.Error)
                                                ELSE failLog
        /\ pool' = Step(pool, w, AfterRecord(w.res))
        /\ UNCHANGED <<config, ctxDone, producer, summary, monitor, enqueued,
                       taken, sentCount, firedAt, takenAtFire>>

\* ------------------------------------------------------------------- main
\* main.go:37: close(done)
CloseDone ==
    /\ pc = "returned"
    /\ doneClosed' = TRUE
    /\ pc' = "awaitProgress"
    /\ UNCHANGED <<config, ctxDone, jobs, jobsClosed, wg, spawned, i, ret,
                   pool, mu, stats, summary, progressDone, mpc,
                   history>>

\* main.go:38: <-progressDone
AwaitProgressDone ==
    /\ pc = "awaitProgress"
    /\ Received(progressDone)
    /\ pc' = "summary"
    /\ UNCHANGED <<config, ctxDone, jobs, jobsClosed, wg, spawned, i, ret,
                   pool, mu, stats, summary, monitor, history>>

\* main.go:40 and stats.go:112: s.mu.Lock() in GetSummary
GetSummaryLock ==
    /\ pc = "summary"
    /\ Unlocked(mu)
    /\ mu' = MainId
    /\ pc' = "summarizing"
    /\ UNCHANGED <<config, ctxDone, jobs, jobsClosed, wg, spawned, i, ret,
                   pool, stats, summary, monitor, history>>

\* stats.go:113-170: the body of GetSummary and the deferred s.mu.Unlock()
GetSummaryCommit ==
    /\ pc = "summarizing"
    /\ mu = MainId
    /\ summary' = GetSummary(stats)
    /\ stats' = AfterGetSummary(stats)
    /\ mu' = 0
    /\ pc' = "end"
    /\ UNCHANGED <<config, ctxDone, jobs, jobsClosed, wg, spawned, i, ret,
                   pool, monitor, history>>

\* ------------------------------------------------------- progress monitor
\* ui.go:41-42 and stats.go:81: the select takes the ticker case and
\* Progress locks s.mu
TickLock ==
    /\ mpc = "select"
    /\ Unlocked(mu)
    /\ mu' = MonitorId
    /\ mpc' = "tick"
    /\ UNCHANGED <<config, ctxDone, producer, pool, stats, summary,
                   doneClosed, progressDone, history>>

\* stats.go:82-84 and ui.go:43: Progress returns Progress(stats) and unlocks,
\* the bar is printed
TickProgress ==
    /\ mpc = "tick"
    /\ mu = MonitorId
    /\ mu' = 0
    /\ mpc' = "select"
    /\ UNCHANGED <<config, ctxDone, producer, pool, stats, summary,
                   doneClosed, progressDone, history>>

\* ui.go:44-46 and stats.go:81: the select takes the case <-done and
\* Progress locks s.mu
DoneLock ==
    /\ mpc = "select"
    /\ doneClosed
    /\ Unlocked(mu)
    /\ mu' = MonitorId
    /\ mpc' = "final"
    /\ UNCHANGED <<config, ctxDone, producer, pool, stats, summary,
                   doneClosed, progressDone, history>>

\* stats.go:82-84 and ui.go:47-50: the final Progress call returns
\* Progress(stats) and unlocks, the full bar is printed, the monitor returns
DoneProgress ==
    /\ mpc = "final"
    /\ mu = MonitorId
    /\ mu' = 0
    /\ mpc' = "returned"
    /\ UNCHANGED <<config, ctxDone, producer, pool, stats, summary,
                   doneClosed, progressDone, history>>

\* main.go:30: close(progressDone)
CloseProgressDone ==
    /\ mpc = "returned"
    /\ progressDone' = TRUE
    /\ mpc' = "exited"
    /\ UNCHANGED <<config, ctxDone, producer, pool, mu, stats, summary,
                   doneClosed, history>>

Next ==
    \/ Cancel
    \/ SpawnWorker
    \/ SpawnDone
    \/ SendJob
    \/ SelectCancelled
    \/ ReturnCancelled
    \/ CloseJobs
    \/ ReturnNil
    \/ TakeJob
    \/ WorkerExit
    \/ SendRequest
    \/ RecordLock
    \/ RecordCommit
    \/ CloseDone
    \/ AwaitProgressDone
    \/ GetSummaryLock
    \/ GetSummaryCommit
    \/ TickLock
    \/ TickProgress
    \/ DoneLock
    \/ DoneProgress
    \/ CloseProgressDone

Spec == Init /\ [][Next]_vars

\* The steps of RunLoadTest and of its workers, but for the wait for s.mu.
RunStep ==
    \/ SpawnWorker
    \/ SpawnDone
    \/ SendJob
    \/ SelectCancelled
    \/ ReturnCancelled
    \/ CloseJobs
    \/ ReturnNil
    \/ TakeJob
    \/ WorkerExit
    \/ SendRequest
    \/ RecordCommit

\* stats.go:82-84: the monitor, inside Progress, returns and unlocks
ProgressReturns == TickProgress \/ DoneProgress

\* The runs under fair scheduling: a goroutine of RunLoadTest that can take a
\* step takes one, every SendRequest call returns, the monitor leaves a
\* Progress call it is in, and a worker that waits for s.mu obtains it
\* although the monitor takes it again and again (a sync.Mutex hands the lock
\* over to a goroutine that has waited).  Nothing is assumed of the signal
\* or of the ticker.
FairSpec ==
    Spec /\ WF_vars(RunStep) /\ WF_vars(ProgressReturns) /\ SF_vars(RecordLock)

\* ------------------------------------------------------ Stats test driver
\* A goroutine that calls the exported methods of a Stats (stats.go Record,
\* GetSummary) with every sequence of results drawn from a feed and changes
\* the Summary it obtains.  Record and GetSummary are the actions of Spec.
MaxRecords == 11
MaxSamples == 4
LongRun == 21

\* enough failures, of two kinds, to fill the error sample
ErrorCapFeed ==
    [k \in 1..MaxRecords |->
        {TransportErrorResult(1), BodyErrorResult(1), SuccessResult(200, 1, 2)}]

\* every short sequence of durations
SmallFeed ==
    [k \in 1..MaxSamples |->
        {BuildErrorResult} \cup {SuccessResult(200, d, 1) : d \in 1..3}]

\* long runs of distinct durations, recorded in descending order and
\* scattered
DescendingFeed ==
    [k \in 1..LongRun |-> {SuccessResult(200, LongRun + 1 - k, 0)}]

ScatteredFeed ==
    [k \in 1..LongRun |-> {SuccessResult(200, ((5 * k) % LongRun) + 1, 0)}]

StatsFeeds == {ErrorCapFeed, SmallFeed, DescendingFeed, ScatteredFeed}

StatsInit ==
    /\ feed \in StatsFeeds
    /\ numRequests = Len(feed)
    /\ concurrency = 1
    /\ ctxDone = FALSE
    /\ jobs = <<>>
    /\ jobsClosed = FALSE
    /\ wg = 0
    /\ pc = "driver"
    /\ spawned = 1
    /\ i = 0
    /\ ret = "none"
    /\ pool = SetToBag({Idle})
    /\ mu = 0
    /\ stats = NewStats(numRequests)
    /\ summary = NoSummary
    /\ doneClosed = FALSE
    /\ progressDone = FALSE
    /\ mpc = "exited"
    /\ enqueued = <<>>
    /\ taken = <<>>
    /\ recordCount = [k \in 0..(numRequests - 1) |-> 0]
    /\ sentCount = [k \in 0..(numRequests - 1) |-> 0]
    /\ firedAt = -1
    /\ takenAtFire = -1
    /\ failLog = <<>>
    /\ tmpl = ParseTemplate(<<"/">>)
    /\ renders = <<>>

\* the driver obtains its next result and calls stats.Record(result)
DriverCall ==
    /\ pc = "driver"
    /\ Idle \in WorkerStates
    /\ i < Len(feed)
    /\ \E r \in feed[i + 1] : pool' = Step(pool, Idle, Waiting(i, r))
    /\ i' = i + 1
    /\ UNCHANGED <<config, ctxDone, jobs, jobsClosed, wg, pc, spawned, ret,
                   mu, stats, summary, monitor, history>>

\* the driver, between two Record calls, calls stats.GetSummary()
DriverSummary ==
    /\ pc = "driver"
    /\ \A w \in WorkerStates : w = Idle
    /\ pc' = "summary"
    /\ UNCHANGED <<config, ctxDone, jobs, jobsClosed, wg, spawned, i, ret,
                   pool, mu, stats, summary, monitor, history>>

\* the driver writes to the map and to the slice of the Summary it holds
DriverChange ==
    /\ pc = "end"
    /\ summary = GetSummary(stats)
    /\ summary' = [summary EXCEPT
                      !.StatusCodes = IncrMap(@, 200),
                      !.Errors = IF @ = <<>> THEN @ ELSE [@ EXCEPT ![1] = "changed"]]
    /\ stats' = AfterSummaryChange(stats, summary')
    /\ UNCHANGED <<config, ctxDone, producer, pool, mu, monitor, history>>

\* the driver drops the Summary and goes on
DriverResume ==
    /\ pc = "end"
    /\ pc' = "driver"
    /\ summary' = NoSummary
    /\ UNCHANGED <<config, ctxDone, jobs, jobsClosed, wg, spawned, i, ret,
                   pool, mu, stats, monitor, history>>

StatsNext ==
    \/ DriverCall
    \/ RecordLock
    \/ RecordCommit
    \/ DriverSummary
    \/ GetSummaryLock
    \/ GetSummaryCommit
    \/ DriverChange
    \/ DriverResume

StatsSpec == StatsInit /\ [][StatsNext]_vars

\* ------------------------------------------------------- Render test driver
\* Goroutines that call Render of one parsed Template, as the workers do in
\* SendRequest (worker.go:31, 36), with the indices of the feed.
MaxRenders == 3

\* the least pad width that fmt refuses
WideWidth == 10 * FmtMaxWidth + 10

\* templates that consist of one $sequence placeholder: "{{$sequence(1,3)}}",
\* "{{$sequence}}", "{{$sequence(7)}}", "{{$sequence(-5,3)}}" and
\* "{{$sequence(5,10000010)}}"
SequenceCases ==
    {[raw |-> Token(SequenceName \o <<"(", "1", ",", "3", ")">>),
      indices |-> <<0, 9>>],
     [raw |-> Token(SequenceName),
      indices |-> <<0, 2>>],
     [raw |-> Token(SequenceName \o <<"(", "7", ")">>),
      indices |-> <<0, 3>>],
     [raw |-> Token(SequenceName \o <<"(", "-", "5", ",", "3", ")">>),
      indices |-> <<0, 5>>],
     [raw |-> Token(SequenceName \o <<"(", "5", ",">> \o Decimal(WideWidth) \o <<")">>),
      indices |-> <<0>>]}

\* templates that consist of one $cycle placeholder: "{{$cycle(1,2)}}",
\* "{{$cycle}}", "{{$cycle(8,3,2)}}" and "{{$cycle(1,2,10000010)}}"
CycleCases ==
    {[raw |-> Token(CycleName \o <<"(", "1", ",", "2", ")">>),
      indices |-> <<0, 1, 2, 3>>],
     [raw |-> Token(CycleName),
      indices |-> <<0, 9, 10, 19>>],
     [raw |-> Token(CycleName \o <<"(", "8", ",", "3", ",", "2", ")">>),
      indices |-> <<0, 1, 2, 3, 5>>],
     [raw |-> Token(CycleName \o <<"(", "1", ",", "2", ",">> \o Decimal(WideWidth) \o <<")">>),
      indices |-> <<0, 2>>]}

\* templates without a placeholder: the empty string, "x}}y" and "{{"
StaticCases ==
    {[raw |-> <<>>,
      indices |-> <<0, 1>>],
     [raw |-> <<"x", "}", "}", "y">>,
      indices |-> <<0, 4>>],
     [raw |-> <<"{", "{">>,
      indices |-> <<0, 1>>]}

\* templates with a placeholder and then a "{{" that nothing closes:
\* "{{$sequence}}b{{c" and "x{{$cycle(1,2)}}{{$sequence"
UnclosedCases ==
    {[raw |-> Token(SequenceName) \o <<"b", "{", "{", "c">>,
      indices |-> <<0, 1>>],
     [raw |-> <<"x">> \o Token(CycleName \o <<"(", "1", ",", "2", ")">>)
                  \o <<"{", "{">> \o SequenceName,
      indices |-> <<0, 1>>]}

\* raw templates and the indices they are rendered with:
\* "/p", "id={{$sequence(1,3)}}", "{{$cycle(1,2)}}-{{$sequence}}",
\* "{{$randomBool}}", "{{ $randomInt(1,2) }}x{{$sequence}}", "{{$uuid}}",
\* "{{$randomString(1)}}{{$timestamp}}", "{{$randomInt(-134217728,134217727)}}"
\* (the whole range of int) and "a{{b"
TemplateCases ==
    {[raw |-> <<"/", "p">>,
      indices |-> <<0, 1>>],
     [raw |-> <<"i", "d", "=">> \o Token(SequenceName \o <<"(", "1", ",", "3", ")">>),
      indices |-> <<0, 9>>],
     [raw |-> Token(CycleName \o <<"(", "1", ",", "2", ")">>) \o <<"-">>
                  \o Token(SequenceName),
      indices |-> <<0, 1, 2>>],
     [raw |-> Token(RandomBoolName),
      indices |-> <<0, 1>>],
     [raw |-> Token(<<" ">> \o RandomIntName \o <<"(", "1", ",", "2", ")", " ">>)
                  \o <<"x">> \o Token(SequenceName),
      indices |-> <<0, 1>>],
     [raw |-> Token(UuidName),
      indices |-> <<0>>],
     [raw |-> Token(RandomStringName \o <<"(", "1", ")">>) \o Token(TimestampName),
      indices |-> <<0>>],
     [raw |-> Token(RandomIntName
                  \o <<"(">> \o PaddedDecimal(0, IntMin) \o <<",">>
                  \o PaddedDecimal(0, IntMax) \o <<")">>),
      indices |-> <<0>>],
     [raw |-> <<"a", "{", "{", "b">>,
      indices |-> <<0, 1>>]}
        \cup SequenceCases \cup CycleCases \cup StaticCases \cup UnclosedCases

\* dynamic.go:173-174: inside Render(requestIndex), before segment k, with b
\* in the builder
Rendering(requestIndex, k, b) ==
    [pc |-> "render", job |-> requestIndex, res |-> [seg |-> k, b |-> b]]

TemplateInit ==
    /\ \E c \in TemplateCases :
          /\ tmpl = ParseTemplate(c.raw)
          /\ feed = c.indices
    /\ tmpl.err = "nil"
    /\ renders = <<>>
    /\ concurrency \in 1..MaxConcurrency
    /\ numRequests = MaxRenders
    /\ ctxDone = FALSE
    /\ jobs = <<>>
    /\ jobsClosed = FALSE
    /\ wg = 0
    /\ pc = "driver"
    /\ spawned = concurrency
    /\ i = 0
    /\ ret = "none"
    /\ pool = [w \in {Idle} |-> concurrency]
    /\ mu = 0
    /\ stats = NewStats(numRequests)
    /\ summary = NoSummary
    /\ doneClosed = FALSE
    /\ progressDone = FALSE
    /\ mpc = "exited"
    /\ enqueued = <<>>
    /\ taken = <<>>
    /\ recordCount = [k \in 0..(numRequests - 1) |-> 0]
    /\ sentCount = [k \in 0..(numRequests - 1) |-> 0]
    /\ firedAt = -1
    /\ takenAtFire = -1
    /\ failLog = <<>>

\* a fast path that returns the empty string
RawResultBug(t) == <<>>
\* dynamic.go:171: return t.raw
RawResult(t) == t.raw

\* dynamic.go:170-172: Render of a Template without placeholders returns
\* t.raw
RenderRaw ==
    /\ pc = "driver"
    /\ i < MaxRenders
    /\ Idle \in WorkerStates
    /\ ~HasPlaceholders(tmpl)
    /\ \E k \in 1..Len(feed) : renders' = Append(renders, <<feed[k], RawResult(tmpl)>>)
    /\ i' = i + 1
    /\ UNCHANGED <<concurrency, numRequests, feed, tmpl, ctxDone, jobs,
                   jobsClosed, wg, pc, spawned, ret, pool, mu, stats, summary,
                   monitor, history>>

\* dynamic.go:170-176: Render of a Template with placeholders starts with an
\* empty builder
RenderStart ==
    /\ pc = "driver"
    /\ i < MaxRenders
    /\ Idle \in WorkerStates
    /\ HasPlaceholders(tmpl)
    /\ \E k \in 1..Len(feed) : pool' = Step(pool, Idle, Rendering(feed[k], 1, <<>>))
    /\ i' = i + 1
    /\ UNCHANGED <<concurrency, numRequests, feed, tmpl, renders, ctxDone,
                   jobs, jobsClosed, wg, pc, spawned, ret, mu, stats, summary,
                   monitor, history>>

\* dynamic.go:178-185: one iteration of the loop over the segments
RenderSegment ==
    /\ pc = "driver"
    /\ \E w \in WorkerStates :
          /\ w.pc = "render"
          /\ w.res.seg <= Len(tmpl.segments)
          /\ \E out \in SegmentOutputs(tmpl.segments[w.res.seg], w.job) :
                /\ out # Panic
                /\ pool' = Step(pool, w, Rendering(w.job, w.res.seg + 1, w.res.b \o out))
    /\ UNCHANGED <<config, ctxDone, producer, mu, stats, summary, monitor,
                   history>>

\* dynamic.go:181: the generator panics, which ends the process
RenderPanic ==
    /\ pc = "driver"
    /\ \E w \in WorkerStates :
          /\ w.pc = "render"
          /\ w.res.seg <= Len(tmpl.segments)
          /\ Panic \in SegmentOutputs(tmpl.segments[w.res.seg], w.job)
    /\ pc' = "panic"
    /\ UNCHANGED <<config, ctxDone, jobs, jobsClosed, wg, spawned, i, ret,
                   pool, mu, stats, summary, monitor, history>>

\* dynamic.go:187: return b.String()
RenderReturn ==
    /\ pc = "driver"
    /\ \E w \in WorkerStates :
          /\ w.pc = "render"
          /\ w.res.seg > Len(tmpl.segments)
          /\ renders' = Append(renders, <<w.job, w.res.b>>)
          /\ pool' = Step(pool, w, Idle)
    /\ UNCHANGED <<concurrency, numRequests, feed, tmpl, ctxDone, producer,
                   mu, stats, summary, monitor, history>>

TemplateNext ==
    \/ RenderRaw
    \/ RenderStart
    \/ RenderSegment
    \/ RenderPanic
    \/ RenderReturn

TemplateSpec == TemplateInit /\ [][TemplateNext]_vars

\* ================================================================= claims
RECURSIVE SumOver(_, _)
\* the sum of f over the finite set S of arguments
SumOver(f, S) ==
    IF S = {} THEN 0
    ELSE LET x == CHOOSE y \in S : TRUE IN f[x] + SumOver(f, S \ {x})

\* the number of completed Record calls
RecordCalls == SumOver(recordCount, DOMAIN recordCount)

\* how often index k was received from the jobs channel
TakeCount(k) == Cardinality({p \in 1..Len(taken) : taken[p] = k})

Returned == ret # "none"

\* C1: a run in which the context is never cancelled returns nil, and when
\* it returns Record has been called exactly NumRequests times.
C1_AllRecordedWithoutCancel ==
    (Returned /\ ~ctxDone) =>
        /\ ret = "nil"
        /\ RecordCalls = numRequests
        /\ stats.totalRequests = numRequests

C1_Witness ==
    /\ ret = "nil" /\ ~ctxDone
    /\ concurrency = MaxConcurrency /\ numRequests = MaxRequests
    /\ stats.totalRequests = MaxRequests

\* C2: when the context was cancelled before any index was enqueued,
\* RunLoadTest returns the cancellation error, nothing is enqueued or
\* recorded, and the summary has TotalRequests = 0.
C2_CancelledBeforeDispatch ==
    firedAt = 0 =>
        /\ enqueued = <<>>
        /\ stats.totalRequests = 0
        /\ Returned => ret = "cancelled"
        /\ summary # NoSummary => summary.TotalRequests = 0

\* C3: with M completed Record calls, totalRequests = M,
\* successCount + failCount = M and the histogram counts sum to successCount.
C3_NoLostUpdate ==
    /\ stats.totalRequests = RecordCalls
    /\ stats.successCount + stats.failCount = RecordCalls
    /\ SumOver(stats.statusCodes, DOMAIN stats.statusCodes) = stats.successCount

\* one worker is inside Record with a failure while another waits for the
\* lock, after a first success was recorded
C3_Witness ==
    /\ stats.successCount = 1
    /\ \E v, w \in WorkerStates :
          /\ v.pc = "recording" /\ v.res.Error # NoError
          /\ w.pc = "record" /\ w.res.Error = NoError

\* C4: every index is received by exactly one worker, sent once and recorded
\* once; no two workers hold the same index; when RunLoadTest has returned
\* every enqueued index has been recorded.
C4_ExactlyOnce ==
    /\ \A k \in DOMAIN recordCount :
          /\ TakeCount(k) <= 1
          /\ sentCount[k] <= 1
          /\ recordCount[k] <= 1
          /\ recordCount[k] <= sentCount[k]
          /\ sentCount[k] <= TakeCount(k)
    /\ \A v \in WorkerStates : v.job # NoJob => CopiesIn(v, pool) = 1
    /\ \A v, w \in WorkerStates : (v # w /\ v.job # NoJob) => v.job # w.job
    /\ Returned => \A p \in 1..Len(enqueued) : recordCount[enqueued[p]] = 1

C4_Witness ==
    /\ Returned
    /\ concurrency = MaxConcurrency
    /\ Len(enqueued) = MaxRequests
    /\ \A p \in 1..Len(enqueued) : recordCount[enqueued[p]] = 1

\* C5: when RunLoadTest returns the cancellation error, every enqueued
\* index, those buffered when the signal fired included, has been taken and
\* recorded: the number of Record calls equals the number of indices enqueued.
C5_CancelledRunDrains ==
    ret = "cancelled" =>
        /\ jobs = <<>>
        /\ taken = enqueued
        /\ RecordCalls = Len(enqueued)
        /\ stats.totalRequests = Len(enqueued)

\* a cancelled run has returned; two indices sat in the buffer when the
\* signal fired and all enqueued indices are recorded
C5_Witness ==
    /\ ret = "cancelled"
    /\ firedAt - takenAtFire >= 2
    /\ Len(enqueued) < numRequests
    /\ stats.totalRequests = Len(enqueued)

\* C6: RunLoadTest spawns exactly Concurrency workers and when it has
\* returned, with nil or with the cancellation error, all of them have left
\* their job loop.
C6_NoWorkerLeak ==
    /\ BagCardinality(pool) = spawned
    /\ spawned <= concurrency
    /\ (pc # "exit1" /\ pc # "spawn") => spawned = concurrency
    /\ Returned => (wg = 0 /\ CopiesIn(Exited, pool) = concurrency)

C6_Witness ==
    /\ ret = "cancelled"
    /\ concurrency = MaxConcurrency
    /\ CopiesIn(Exited, pool) = MaxConcurrency
    /\ stats.totalRequests >= 2

\* C7: once the context is cancelled, no further index is enqueued.
C7_NoEnqueueAfterCancel == [][ctxDone => enqueued' = enqueued]_vars

\* C8: if the context is cancelled before index NumRequests-1 is enqueued,
\* RunLoadTest returns the cancellation error; it returns nil only if all
\* NumRequests indices were enqueued.
C8_CancelSurfaces ==
    Returned =>
        /\ (firedAt # -1 /\ firedAt < numRequests) => ret = "cancelled"
        /\ ret = "nil" => Len(enqueued) = numRequests

\* C9: the indices enqueued so far are 0, 1, .., k-1 in this order, for some
\* k <= NumRequests (results may be recorded in any order).
C9_DispatchOrder ==
    /\ Len(enqueued) <= numRequests
    /\ \A p \in 1..Len(enqueued) : enqueued[p] = p - 1

\* index 1 is recorded while index 0 is not
C9_Witness ==
    /\ numRequests >= 2
    /\ Len(enqueued) = MaxRequests
    /\ recordCount[1] = 1 /\ recordCount[0] = 0

\* C10: the jobs queue never holds more than 2*Concurrency indices, which
\* bounds the indices dispatched and not yet taken, and while the queue is
\* full no index is enqueued.
C10_BoundedQueue ==
    [][/\ Len(jobs) <= 2 * concurrency
       /\ Len(jobs') <= 2 * concurrency
       /\ Len(enqueued') - Len(taken') <= 2 * concurrency
       /\ Len(jobs) = 2 * concurrency => enqueued' = enqueued]_vars

\* the producer is blocked on a full queue
C10_Witness ==
    /\ pc = "dispatch"
    /\ i < numRequests
    /\ Len(jobs) = 2 * concurrency
    /\ Len(enqueued) - Len(taken) = 2 * concurrency

\* the number of workers whose local state satisfies holds
CountWorkers(holds(_)) ==
    LET S == {w \in WorkerStates : holds(w)}
    IN  SumOver([w \in S |-> CopiesIn(w, pool)], S)

HoldsJob(w) == w.job # NoJob
InSendRequest(w) == w.pc = "send"

\* C11: a worker holds one index at a time and takes the next one only when
\* the Record call for the previous one has completed: the indices taken and
\* not yet recorded are held by as many workers, and neither they nor the
\* requests in flight ever exceed Concurrency.
C11_OneAtATime ==
    /\ \A w \in WorkerStates : (w.pc \in {"range", "exited"}) <=> (w.job = NoJob)
    /\ CountWorkers(HoldsJob) = Len(taken) - RecordCalls
    /\ CountWorkers(HoldsJob) <= concurrency
    /\ CountWorkers(InSendRequest) <= concurrency

\* every worker has a request in flight while another index waits in the
\* queue
C11_Witness ==
    /\ concurrency = MaxConcurrency
    /\ CountWorkers(InSendRequest) = MaxConcurrency
    /\ jobs # <<>>

\* C12: with the Stats built by NewStats(NumRequests), what Progress returns
\* as completed never exceeds what it returns as total, which is NumRequests,
\* cancelled or not.
C12_ProgressBounded ==
    /\ Progress(stats).total = numRequests
    /\ Progress(stats).completed <= Progress(stats).total

\* the monitor is inside Progress when every request has been recorded
C12_Witness ==
    /\ mpc = "tick" /\ mu = MonitorId
    /\ numRequests = MaxRequests
    /\ Progress(stats).completed = Progress(stats).total

\* C13: a failed attempt yields a result with an error and StatusCode 0 and
\* Record counts it in failCount (and totalErrors) only; a drained response,
\* whatever its status, yields a result without error and Record counts it
\* in successCount and in the histogram entry of its status code.
C13_FailureAccounting ==
    [][\A w \in WorkerStates :
          /\ w.pc \in {"record", "recording"} =>
                (w.res.Error # NoError <=> w.res.StatusCode = 0)
          /\ (w.pc = "recording" /\ stats' # stats) =>
                IF w.res.Error # NoError
                THEN /\ stats'.failCount = stats.failCount + 1
                     /\ stats'.totalErrors = stats.totalErrors + 1
                     /\ stats'.successCount = stats.successCount
                     /\ stats'.statusCodes = stats.statusCodes
                ELSE /\ stats'.successCount = stats.successCount + 1
                     /\ stats'.failCount = stats.failCount
                     /\ stats'.totalErrors = stats.totalErrors
                     /\ stats'.statusCodes = IncrMap(stats.statusCodes, w.res.StatusCode)
      ]_vars

\* a body-read failure, a non-2xx response and a 2xx response are recorded
C13_Witness ==
    /\ stats.failCount = 1
    /\ stats.errors = <<"reading response body">>
    /\ DOMAIN stats.statusCodes = {200, 500}
    /\ stats.successCount = 2

\* C14: a failed request is never sent again and does not end its worker
\* (a worker leaves the loop only when the queue is closed and empty); a run
\* that is not cancelled returns nil with all NumRequests results recorded,
\* however many of them are failures.
C14_FailuresIsolated ==
    /\ \A k \in DOMAIN sentCount : sentCount[k] <= 1
    /\ CopiesIn(Exited, pool) > 0 => (jobsClosed /\ jobs = <<>>)
    /\ (Returned /\ ~ctxDone) =>
          /\ ret = "nil"
          /\ stats.totalRequests = numRequests
          /\ stats.successCount + stats.failCount = numRequests

\* every request of an uncancelled run failed
C14_Witness ==
    /\ ret = "nil" /\ ~ctxDone
    /\ numRequests = MaxRequests
    /\ stats.failCount = MaxRequests

\* C18: main calls GetSummary once, when RunLoadTest has returned (nil or
\* the cancellation error) and the progress monitor has stopped; from the
\* moment GetSummary starts there is no Record and no Progress call, and the
\* summary's TotalRequests is the number of results recorded.
C18_SummaryAfterQuiescence ==
    [][/\ pc' \in {"summarizing", "end"} =>
             /\ Returned'
             /\ mpc' = "exited"
             /\ \A w \in BagToSet(pool') : w = Exited
             /\ mu' \in {0, MainId}
       /\ pc \in {"summarizing", "end"} => (stats' = stats /\ mpc' = mpc)
       /\ summary # NoSummary => summary' = summary
       /\ summary' # NoSummary =>
             /\ summary'.TotalRequests = RecordCalls'
             /\ summary'.TotalRequests = stats'.totalRequests
      ]_vars

\* the summary of a cancelled run that recorded some but not all requests
C18_Witness ==
    /\ pc = "end"
    /\ ret = "cancelled"
    /\ summary # NoSummary
    /\ summary.TotalRequests >= 1
    /\ summary.TotalRequests < numRequests

\* C19: an index a worker has taken, before or after the signal fired, is
\* held by that worker until it is recorded, and is recorded when RunLoadTest
\* has returned; a SendRequest that ends after the cancellation yields a
\* failure (an error, StatusCode 0).
C19_TakenJobsRecorded ==
    [][/\ \A p \in 1..Len(taken') :
             \/ recordCount'[taken'[p]] = 1
             \/ \E w \in BagToSet(pool') : w.job = taken'[p]
       /\ Returned' => \A p \in 1..Len(taken') : recordCount'[taken'[p]] = 1
       /\ (ctxDone /\ sentCount' # sentCount) =>
             \A w \in BagToSet(pool') :
                 (w.pc = "record" /\ CopiesIn(w, pool') > CopiesIn(w, pool)) =>
                     (w.res.Error # NoError /\ w.res.StatusCode = 0)
      ]_vars

\* a cancelled run has returned; one index was held by a worker when the
\* signal fired, another was taken from the buffer afterwards, and both are
\* recorded, the later one as a failure
C19_Witness ==
    /\ ret = "cancelled"
    /\ takenAtFire >= 1
    /\ Len(taken) > takenAtFire
    /\ stats.failCount >= Len(taken) - takenAtFire
    /\ \A p \in 1..Len(taken) : recordCount[taken[p]] = 1

Min(a, b) == IF a < b THEN a ELSE b

\* C15: the error sample never holds more than 10 messages; it holds the
\* messages of the first min(10, failCount) failures in the order in which
\* they were recorded; a failure recorded when the sample is full leaves it
\* as it is and still adds one to failCount and to totalErrors.
C15_ErrorSampleCapped ==
    [][/\ Len(stats'.errors) <= 10
       /\ stats'.failCount = Len(failLog')
       /\ stats'.errors = SubSeq(failLog', 1, Min(10, stats'.failCount))
       /\ (failLog' # failLog /\ stats.failCount >= 10) =>
             /\ stats'.errors = stats.errors
             /\ stats'.failCount = stats.failCount + 1
             /\ stats'.totalErrors = stats.totalErrors + 1
      ]_vars

\* eleven failures have been recorded, the last of a kind that differs from
\* the first, and the sample holds ten
C15_Witness ==
    /\ stats.failCount = 11
    /\ Len(stats.errors) = 10
    /\ failLog[11] # failLog[1]
    /\ stats.errors = SubSeq(failLog, 1, 10)

\* the value the Summary sm reports for the P-th percentile
Reported(sm, P) ==
    CASE P = 50 -> sm.P50 [] P = 90 -> sm.P90 [] P = 95 -> sm.P95 [] P = 99 -> sm.P99

\* v is the element at 0-based index idx of the ascending arrangement of q
IsOrderStatistic(q, idx, v) ==
    /\ \E j \in 1..Len(q) : q[j] = v
    /\ Cardinality({j \in 1..Len(q) : q[j] < v}) <= idx
    /\ Cardinality({j \in 1..Len(q) : q[j] <= v}) > idx

\* C16: for P in {50, 90, 95, 99} and K >= 1 recorded results GetSummary
\* reports as the P-th percentile the element at index
\* clamp(ceil(P*K/100) - 1, 0, K-1) of the durations in ascending order,
\* whatever the order in which they were recorded; with K = 0 it reports 0.
C16_NearestRank ==
    (pc = "end" /\ summary # NoSummary) =>
        LET K == Len(stats.durations)
        IN  \A P \in {50, 90, 95, 99} :
               IF K = 0 THEN Reported(summary, P) = 0
               ELSE LET c == (P * K) \div 100 + (IF (P * K) % 100 = 0 THEN 0 ELSE 1)
                        idx == Min(K - 1, IF c - 1 < 0 THEN 0 ELSE c - 1)
                    IN  IsOrderStatistic(stats.durations, idx, Reported(summary, P))

\* a Summary of LongRun results that were not recorded in ascending order,
\* with four different percentiles
C16_Witness ==
    /\ pc = "end" /\ summary # NoSummary
    /\ Len(stats.durations) = LongRun
    /\ stats.durations # SortSlice(stats.durations)
    /\ summary.P50 < summary.P90
    /\ summary.P90 < summary.P95
    /\ summary.P95 < summary.P99

IndexOnly(t) ==
    \A k \in 1..Len(t.placeholders) : t.placeholders[k] \in {SequenceName, CycleName}

SameIndexSameString ==
    \A p, q \in 1..Len(renders) :
        renders[p][1] = renders[q][1] => renders[p][2] = renders[q][2]

\* C20 as claimed: any two Render calls of a parsed Template with the same
\* index return the same string.
C20_RenderPure == SameIndexSameString

\* C20, amended: any two Render calls with the same index return the same
\* string when the Template has no placeholder other than $sequence and
\* $cycle, whatever Render calls run concurrently or in between.
C20_RenderPureIndexOnly == IndexOnly(tmpl) => SameIndexSameString

\* a Template with a $cycle and a $sequence segment has rendered index 0,
\* then another index, then index 0 again, while another call is under way
C20_Witness ==
    /\ IndexOnly(tmpl)
    /\ Cardinality({k \in 1..Len(tmpl.segments) : tmpl.segments[k].generator # NoGenerator}) = 2
    /\ Len(renders) = 3
    /\ renders[1][1] = 0 /\ renders[2][1] # 0 /\ renders[3][1] = 0

\* ---------------------------------------------------------------- C21
\* C21: once ParseTemplate has accepted a template, no call of Render on it
\* panics, whatever integer parameters the template has and whatever the
\* index.
C21_RenderNeverFails == tmpl.err = "nil" => pc # "panic"

\* ---------------------------------------------------------------- C22
\* the template is one placeholder of the generator kind
SinglePlaceholder(kind) ==
    /\ tmpl.err = "nil"
    /\ Len(tmpl.segments) = 1
    /\ tmpl.segments[1].generator.kind = kind

\* text is the decimal numeral of n, with zeros on the left as long as it
\* is shorter than pad characters: it reads back as n, it is at least pad
\* long, and it has a zero in front of its digits only to reach pad
IsPaddedDecimal(text, n, pad) ==
    /\ Atoi(text).ok /\ Atoi(text).val = n
    /\ Head(text) # "+"
    /\ (Head(text) = "-") <=> (n < 0)
    /\ Len(text) >= pad
    /\ Len(text) > pad =>
          LET digits == IF n < 0 THEN Tail(text) ELSE text
          IN  Len(digits) = 1 \/ Head(digits) # "0"

\* C22: a template that is the single placeholder $sequence(start,pad)
\* renders index i as the decimal text of start+i, zero-padded on the left
\* to pad; with pad 0 or omitted it is the unpadded decimal text;
\* $sequence(1,3) renders 0 as "001" and 9 as "010".
C22_SequenceText ==
    SinglePlaceholder("sequence") =>
        LET g == tmpl.segments[1].generator
        IN  \A k \in 1..Len(renders) :
              /\ IsPaddedDecimal(renders[k][2], WrapInt(g.a + renders[k][1]), g.b)
              /\ (g.a = 1 /\ g.b = 3 /\ renders[k][1] = 0) => renders[k][2] = <<"0", "0", "1">>
              /\ (g.a = 1 /\ g.b = 3 /\ renders[k][1] = 9) => renders[k][2] = <<"0", "1", "0">>

\* ---------------------------------------------------------------- C23
\* C23: a template that is the single placeholder $cycle(start,count,pad)
\* renders index i as the zero-padded decimal text of start + (i mod count):
\* indices that differ by count render the same string, and different
\* indices within one period render different strings.
C23_CycleText ==
    SinglePlaceholder("cycle") =>
        LET g == tmpl.segments[1].generator
        IN  /\ \A k \in 1..Len(renders) :
                  IsPaddedDecimal(renders[k][2], g.a + (renders[k][1] % g.b), g.c)
            /\ \A j, k \in 1..Len(renders) :
                  /\ renders[j][1] = renders[k][1] + g.b => renders[j][2] = renders[k][2]
                  /\ (renders[j][1] < g.b /\ renders[k][1] < g.b
                        /\ renders[j][1] # renders[k][1]) => renders[j][2] # renders[k][2]

\* ---------------------------------------------------------------- C24
\* C24: a raw string without "{{" is accepted by ParseTemplate with no
\* placeholders, and every Template without placeholders renders to its raw
\* input at every index.
C24_StaticRendersRaw ==
    /\ Index(tmpl.raw, <<"{", "{">>) = -1 =>
          tmpl.err = "nil" /\ tmpl.placeholders = <<>>
    /\ (tmpl.err = "nil" /\ ~HasPlaceholders(tmpl)) =>
          \A k \in 1..Len(renders) : renders[k][2] = tmpl.raw

\* "/p" has been rendered at two different indices
C24_Witness ==
    /\ tmpl.raw = <<"/", "p">>
    /\ Len(renders) >= 2
    /\ renders[1][1] # renders[2][1]

\* ---------------------------------------------------------------- C27
\* raw has a "{{" at position k and no "}}" from there on
UnclosedAt(raw, k) ==
    /\ OccursAt(raw, <<"{", "{">>, k)
    /\ \A j \in k..Len(raw) : ~OccursAt(raw, <<"}", "}">>, j)

\* the position of the first unclosed "{{" of raw, or -1
FirstUnclosed(raw) ==
    IF \E k \in 0..Len(raw) : UnclosedAt(raw, k)
    THEN CHOOSE k \in 0..Len(raw) :
            UnclosedAt(raw, k) /\ \A j \in 0..(k - 1) : ~UnclosedAt(raw, j)
    ELSE -1

RECURSIVE StripTokens(_)
\* raw without its well-formed tokens {{...}}
StripTokens(raw) ==
    LET open == Index(raw, <<"{", "{">>)
        close == IF open = -1 THEN -1
                 ELSE Index(Slice(raw, open, Len(raw)), <<"}", "}">>)
    IN  IF close = -1 THEN raw
        ELSE Slice(raw, 0, open) \o StripTokens(Slice(raw, open + close + 2, Len(raw)))

RECURSIVE IsSubsequence(_, _)
\* the characters of s appear in text in the order of s
IsSubsequence(s, text) ==
    IF s = <<>> THEN TRUE
    ELSE IF text = <<>> THEN FALSE
    ELSE IF Head(s) = Head(text) THEN IsSubsequence(Tail(s), Tail(text))
    ELSE IsSubsequence(s, Tail(text))

\* C27: an unclosed "{{" never makes ParseTemplate fail (it fails exactly
\* when the text before the unclosed "{{" fails); the remainder, from the
\* text before the "{{" on, is the last segment and is static; every Render
\* ends with it, and carries every character of raw outside the well-formed
\* tokens, in the order of raw.
C27_UnclosedIsStatic ==
    LET u == FirstUnclosed(tmpl.raw)
    IN  u # -1 =>
          /\ tmpl.err = ParseTemplate(Slice(tmpl.raw, 0, u)).err
          /\ tmpl.err = "nil" =>
                LET last == tmpl.segments[Len(tmpl.segments)]
                IN  /\ last.generator = NoGenerator
                    /\ HasSuffix(tmpl.raw, last.staticText)
                    /\ Len(last.staticText) >= Len(tmpl.raw) - u
                    /\ \A k \in 1..Len(renders) :
                          /\ HasSuffix(renders[k][2], last.staticText)
                          /\ IsSubsequence(StripTokens(tmpl.raw), renders[k][2])

\* "{{$sequence}}b{{c" has been rendered, by the loop over its segments
C27_Witness ==
    /\ FirstUnclosed(tmpl.raw) = Len(Token(SequenceName)) + 1
    /\ HasPlaceholders(tmpl)
    /\ Len(tmpl.segments) = 2
    /\ Len(renders) >= 2
    /\ renders[1][2] # renders[2][2]

\* ---------------------------------------------------------------- C25
\* the error ParseTemplate gives for each fault
FaultError(fault) ==
    CASE fault = "unknown name" -> "unknown placeholder"
      [] fault = "non-integer parameter" -> "invalid integer parameter"
      [] fault = "too many parameters" -> "too many parameters"
      [] fault = "parameter on a parameterless generator" -> "does not accept parameters"
      [] fault = "min > max" -> "min must be <= max"
      [] fault = "length <= 0" -> "length must be > 0"
      [] fault = "count <= 0" -> "count must be > 0"
      [] fault = "negative pad" -> "pad width must be >= 0"
      [] fault = "unbalanced parentheses" -> "unbalanced parentheses"

\* no goroutine of the run exists and nothing of the run has happened
NothingStarted ==
    /\ pc = "exit1"
    /\ pool = EmptyBag /\ spawned = 0 /\ wg = 0
    /\ enqueued = <<>> /\ taken = <<>> /\ ~jobsClosed
    /\ RecordCalls = 0 /\ stats = NewStats(numRequests)
    /\ mpc = "exited" /\ summary = NoSummary

\* C25: ParseTemplate rejects every invalid placeholder with an error and
\* no Template: an unknown name (the error names it and lists the valid
\* names), a non-integer parameter, too many parameters, a parameter on a
\* parameterless generator, min > max, length <= 0, count <= 0 and a
\* negative pad; and a run whose template is rejected ends before a worker
\* is spawned.
C25_InvalidRejected ==
    /\ \A c \in InvalidCases :
          c.raw = tmpl.raw =>
              /\ tmpl.err = FaultError(c.fault)
              /\ tmpl.segments = <<>> /\ tmpl.placeholders = <<>>
              /\ c.fault = "unknown name" =>
                    /\ OccursAt(tmpl.raw, Token(tmpl.args[1]), Len(tmpl.raw) - Len(Token(tmpl.args[1])))
                    /\ Tail(tmpl.args) = AvailableNames
                    /\ \A k \in 1..Len(AvailableNames) :
                          lookupGenerator(AvailableNames[k], <<>>).err = "nil"
                    /\ Len(AvailableNames) = Cardinality(Parameterless) + 4
    /\ tmpl.err # "nil" => NothingStarted

\* the run of a rejected template
C25_Witness ==
    /\ tmpl.err = "does not accept parameters"
    /\ pc = "exit1"

\* ---------------------------------------------------------------- C26
InRecord(w) == w.pc = "recording"
OutsideRecord(w) == w.pc \in {"range", "send", "record", "exited"}

\* the goroutines that are between the Lock and the Unlock of a Record,
\* Progress or GetSummary call
Holders ==
    CountWorkers(InRecord)
        + (IF pc = "summarizing" THEN 1 ELSE 0)
        + (IF mpc \in {"tick", "final"} THEN 1 ELSE 0)

\* C26: the statistics lock is held only inside one Record, Progress or
\* GetSummary call and by one goroutine at a time; a worker that is taking
\* an index, inside SendRequest or waiting to record does not hold it, so a
\* worker inside SendRequest leaves the lock free for the Record of another.
C26_LockOnlyInsideCalls ==
    /\ Holders <= 1
    /\ (mu = 0) <=> (Holders = 0)
    /\ (mu = WorkerId) <=> (CountWorkers(InRecord) = 1)
    /\ (mu = MainId) <=> (pc = "summarizing")
    /\ (mu = MonitorId) <=> (mpc \in {"tick", "final"})
    /\ CountWorkers(InRecord) + CountWorkers(OutsideRecord) = spawned

\* one worker is inside Record, holding the lock, while another is inside
\* SendRequest
C26_Witness ==
    /\ mu = WorkerId
    /\ CountWorkers(InRecord) = 1
    /\ CountWorkers(InSendRequest) = 1
    /\ RecordCalls >= 1

\* ---------------------------------------------------------------- C29
\* C29: the jobs queue is closed exactly once on every path through
\* RunLoadTest: a close happens only in the step that leaves the dispatch
\* loop, on a queue that is open, and the loop is never entered again; once
\* the queue is closed it stays closed and nothing is sent on it; a worker
\* ends only when the queue is closed and empty; and RunLoadTest returns
\* only with the queue closed.
C29_ClosedOnce ==
    [][/\ (jobsClosed' # jobsClosed) => (pc = "dispatch" /\ ~jobsClosed)
       /\ (pc = "dispatch" /\ pc' # "dispatch") => (~jobsClosed /\ jobsClosed')
       /\ (pc' = "dispatch") => (pc = "spawn" \/ pc = "dispatch")
       /\ jobsClosed =>
             /\ jobsClosed'
             /\ pc' # "dispatch"
             /\ enqueued' = enqueued
             /\ (jobs' = jobs \/ jobs' = Tail(jobs))
       /\ (wg' < wg) => (jobsClosed /\ jobs = <<>>)
       /\ Returned' => jobsClosed'
      ]_vars

\* a cancelled run has returned: the queue was closed by the cancelled
\* branch before every index was sent, after the workers had taken some
C29_Witness ==
    /\ ret = "cancelled"
    /\ jobsClosed
    /\ Len(enqueued) < numRequests
    /\ Len(taken) >= 1
    /\ wg = 0

\* ---------------------------------------------------------------- C30
\* what holds of a Stats s between two calls
StatsConsistent(s) ==
    /\ Len(s.durations) = s.totalRequests
    /\ s.totalErrors = s.failCount
    /\ Len(s.errors) = Min(s.failCount, 10)
    /\ s.totalDuration = SumOver(s.durations, 1..Len(s.durations))
    /\ s.totalRequests = 0 => s.totalBytes = 0
    /\ \A k \in 1..Len(s.durations) :
          s.minDuration <= s.durations[k] /\ s.durations[k] <= s.maxDuration

\* C30: after any sequence of Record calls the list of durations has
\* totalRequests entries, in the order of the commits, totalErrors is
\* failCount, the error sample has min(failCount, 10) entries, totalDuration
\* and totalBytes are the sums of the recorded durations and byte counts,
\* every recorded duration lies between minDuration and maxDuration, and
\* GetSummary reports MinDuration 0 when nothing was recorded.
C30_StatsConsistent ==
    [][/\ StatsConsistent(stats)
       /\ StatsConsistent(stats')
       /\ stats'.totalRequests # stats.totalRequests =>
             \E w \in WorkerStates :
                /\ w.pc = "recording"
                /\ stats'.totalRequests = stats.totalRequests + 1
                /\ stats'.durations = Append(stats.durations, w.res.Duration)
                /\ stats'.totalBytes = stats.totalBytes + w.res.ContentLength
       /\ (summary' # NoSummary /\ stats'.totalRequests = 0) => summary'.MinDuration = 0
      ]_vars

\* eleven failures have been recorded, the sample holds ten of them, and a
\* summary has been taken
C30_Witness ==
    /\ stats.failCount = 11
    /\ Len(stats.durations) = 11
    /\ Len(stats.errors) = 10
    /\ stats.totalDuration >= 11
    /\ summary # NoSummary

\* ---------------------------------------------------------------- C28
\* C28: under fair scheduling, with every SendRequest call returning, every
\* run in which RunLoadTest is called reaches the state where it has
\* returned, whether or not the context is cancelled and whenever it is.
C28_Terminates == (pc = "spawn") ~> Returned

\* RunLoadTest has returned in a run cancelled while the queue was full and
\* the producer blocked on its send
C28_Witness ==
    /\ Returned
    /\ firedAt - takenAtFire = QueueCap(concurrency)
    /\ firedAt < numRequests
    /\ \A w \in WorkerStates : w = Exited

====
